---- MODULE Spec2Model ----
(***************************************************************************)
(* The Desktop Entry encoder of to_appimage (src/src/desktop_entry/mod.rs): *)
(* a serde Serializer that renders a value as "[Section]" headers and       *)
(* "Key=Value" lines.  The model is the recursive descent of one            *)
(* to_writer call over one input value: the Serializer's fields, the call   *)
(* stack of the Serialize impls that drive it, and the sink.                *)
(*                                                                         *)
(* Text is a sequence of one-character strings, so that                     *)
(* String::ends_with('=') and exact output comparisons are computed.        *)
(***************************************************************************)
EXTENDS Integers, Sequences, FiniteSets, TLC

(***************************************************************************)
(* Bounds of the input values.                                              *)
(***************************************************************************)
\* most items of a sequence / entries of a map / fields of an inner struct
MaxItems == 2
\* most fields of a root or section composite
MaxFields == 2
\* deepest chain of nested composites
MaxDepth == 4

\* positional key names: the i-th field or entry of every composite
KeyNames == << <<"a">>, <<"b">>, <<"c">>, <<"d">> >>

(***************************************************************************)
(* Values: the shapes the serde data model hands to the Serializer.         *)
(* t is the shape; s the text of a str; b the bool; kids the items of a     *)
(* seq, the values of a map's entries or of a struct's fields (the key of   *)
(* the i-th entry or field is KeyNames[i]).                                 *)
(***************************************************************************)
Str(s) == [t |-> "str", s |-> s, b |-> FALSE, kids |-> <<>>]
Bool(b) == [t |-> "bool", s |-> <<>>, b |-> b, kids |-> <<>>]
NoneVal == [t |-> "none", s |-> <<>>, b |-> FALSE, kids |-> <<>>]
SeqVal(items) == [t |-> "seq", s |-> <<>>, b |-> FALSE, kids |-> items]
MapVal(vals) == [t |-> "map", s |-> <<>>, b |-> FALSE, kids |-> vals]
StructVal(vals) == [t |-> "struct", s |-> <<>>, b |-> FALSE, kids |-> vals]

Composite(k, vals) == [t |-> k, s |-> <<>>, b |-> FALSE, kids |-> vals]

\* a tuple (k = "tuple") or a tuple struct (k = "tuple_struct")
TupleVal(k, items) == [t |-> k, s |-> <<>>, b |-> FALSE, kids |-> items]

\* a tuple variant: s is the variant's name
TupleVariantVal(variant, items) == [t |-> "tuple_variant", s |-> variant, b |-> FALSE, kids |-> items]

\* Some(v) of an Option
SomeVal(v) == [t |-> "some", s |-> <<>>, b |-> FALSE, kids |-> <<v>>]

\* a u8 and a byte slice (serde_bytes): kids are the u8 in order
U8(n) == [t |-> "u8", s |-> <<>>, b |-> FALSE, kids |-> <<>>, n |-> n]
BytesVal(bytes) == [t |-> "bytes", s |-> <<>>, b |-> FALSE, kids |-> [i \in 1..Len(bytes) |-> U8(bytes[i])]]

\* a struct of a named type: its field names and skip rules are the type's
NamedStruct(name, vals) == [t |-> "struct", s |-> <<>>, b |-> FALSE, kids |-> vals, name |-> name]

IsScalar(v) == v.t \in {"str", "bool", "none"}

\* all sequences over S of length 0..n
SeqsUpTo(S, n) == UNION {[1..k -> S] : k \in 0..n}

(***************************************************************************)
(* Text constants.                                                          *)
(***************************************************************************)
TrueText == <<"t", "r", "u", "e">>
FalseText == <<"f", "a", "l", "s", "e">>
NL == <<"\n">>

Digits == <<"0", "1", "2", "3", "4", "5", "6", "7", "8", "9">>

\* u64::to_string: the decimal digits, most significant first
RECURSIVE to_string_u64(_)
to_string_u64(n) ==
    IF n < 10 THEN <<Digits[n + 1]>>
    ELSE to_string_u64(n \div 10) \o <<Digits[(n % 10) + 1]>>

(***************************************************************************)
(* The desktop file record of src/src/main.rs: DesktopFile holds one        *)
(* DesktopEntry under the name "Desktop Entry".                             *)
(***************************************************************************)
DesktopFileFields == <<<<"D", "e", "s", "k", "t", "o", "p", " ", "E", "n", "t", "r", "y">>>>

DesktopEntryFields ==
    <<<<"N", "a", "m", "e">>,
      <<"E", "x", "e", "c">>,
      <<"I", "c", "o", "n">>,
      <<"T", "y", "p", "e">>,
      <<"C", "a", "t", "e", "g", "o", "r", "i", "e", "s">>,
      <<"T", "e", "r", "m", "i", "n", "a", "l">>>>

AppRun == <<".", "/", "A", "p", "p", "R", "u", "n">>
Application == <<"A", "p", "p", "l", "i", "c", "a", "t", "i", "o", "n">>

\* the name serde passes to serialize_field for the i-th field of v
field_name(v, i) ==
    IF "name" \in DOMAIN v
    THEN (IF v.name = "DesktopFile" THEN DesktopFileFields[i] ELSE DesktopEntryFields[i])
    ELSE KeyNames[i]

is_false(val) == val

Option_is_none(v) == v.t = "none"

\* the skip_serializing_if attributes of DesktopEntry: icon and terminal
skip_serializing_if(v, i) ==
    /\ "name" \in DOMAIN v
    /\ v.name = "DesktopEntry"
    /\ \/ i = 3 /\ Option_is_none(v.kids[i])
       \/ i = 6 /\ is_false(v.kids[i].b)

DesktopFile_new(name, icon, categories, terminal) ==
    NamedStruct("DesktopFile",
        <<NamedStruct("DesktopEntry",
            <<Str(name), Str(AppRun), icon, Str(Application),
              SeqVal(categories), Bool(terminal)>>)>>)

(***************************************************************************)
(* The Serializer and its LevelTracker.  key_name is an Option<String>:     *)
(* <<>> is None, <<k>> is Some(k).                                          *)
(***************************************************************************)
NewSerializer(disable) ==
    [output |-> <<>>, level |-> 0, key_name |-> <<>>, disable_write_key |-> disable]

Push(s, txt) == [s EXCEPT !.output = @ \o txt]

open_level(s) == [s EXCEPT !.level = @ + 1]

\* (mutant) the pending key survives the close
close_level_KeepsKey(s) == [s EXCEPT !.level = @ - 1]

close_level(s) ==
    [s EXCEPT !.key_name = IF s.level = 2 THEN <<>> ELSE @,
              !.level = @ - 1]

set_key(s, key) == [s EXCEPT !.key_name = <<key>>]

ends_with_eq(out) == Len(out) > 0 /\ out[Len(out)] = "="

\* write_pre_val unwraps the pending key: it panics when there is none
PreValPanics(s) == s.level = 2 /\ ~s.disable_write_key /\ s.key_name = <<>>

write_pre_val(s) ==
    IF s.level = 2 /\ ~s.disable_write_key
    THEN Push(Push(s, s.key_name[1]), <<"=">>)
    ELSE s

\* (mutant) the two tokens swapped
serialize_bool_Swapped(s, v) == Push(write_pre_val(s), IF v THEN FalseText ELSE TrueText)

serialize_bool(s, v) == Push(write_pre_val(s), IF v THEN TrueText ELSE FalseText)

serialize_str(s, v) == Push(write_pre_val(s), v)

serialize_u64(s, v) == Push(write_pre_val(s), to_string_u64(v))

serialize_u8(s, v) == serialize_u64(s, v)

serialize_unit(s) == Push(write_pre_val(s), <<>>)

serialize_none(s) == serialize_unit(s)

\* the key serialized on a fresh Serializer (serialize_key's temp_ser)
TempSerOutput(key) == serialize_str(NewSerializer(TRUE), key).output

(***************************************************************************)
(* mod archive of src/src/main.rs.  A file name is the sequence of its      *)
(* dot-separated parts, the stem first; a joined extension string is the    *)
(* sequence of its parts and dots.                                          *)
(***************************************************************************)
\* most extensions of an input file name
MaxExts == 2

Exts == {"zip", "tar", "gz", "gz2", "7z", "bz2", "txt", "AppImage"}

FileNames == {<<"app">> \o e : e \in SeqsUpTo(Exts, MaxExts)}

\* PathExt::extensions_lossy: the extensions, the last one first
extensions_lossy(name) == [i \in 1..(Len(name) - 1) |-> name[Len(name) - i + 1]]

\* Itertools::join
RECURSIVE join(_, _)
join(parts, sep) ==
    IF Len(parts) <= 1 THEN parts
    ELSE <<Head(parts), sep>> \o join(Tail(parts), sep)

\* the literals of is_archive
ArchiveExtensions ==
    {<<"zip">>, <<"tar">>, <<"gz", ".", "tar">>, <<"gz2", ".", "tar">>, <<"7z">>}

is_archive(name) == join(extensions_lossy(name), ".") \in ArchiveExtensions

\* Archive::guess: Ok(Zip), Ok(Tar) or Err(ArchiveFormatNotSupported(a))
guess(name) ==
    LET a == join(extensions_lossy(name), ".")
    IN  CASE a = <<"zip">> -> [tag |-> "Ok", archive |-> "Zip", arg |-> <<>>]
          [] a \in {<<"gz", ".", "tar">>, <<"tar">>} -> [tag |-> "Ok", archive |-> "Tar", arg |-> <<>>]
          [] OTHER -> [tag |-> "Err", archive |-> "ArchiveFormatNotSupported", arg |-> a]

\* unarchive: the Err of guess under ?, or the unzip / tar command, whose
\* failure is an unwrap panic inside unarchive
unarchive(name, cmd_ok) ==
    IF guess(name).tag = "Err" THEN "Err"
    ELSE IF cmd_ok THEN "Ok" ELSE "panic"

(***************************************************************************)
(* State.                                                                   *)
(***************************************************************************)
VARIABLES
    value,      \* the value handed to to_writer
    ser,        \* the Serializer of to_string
    stack,      \* call stack of the Serialize impls, top first
    result,     \* to_string's outcome: running, raising (an Err under ?), Ok, Err, panic
    sink,       \* what the writer has received
    writes,     \* number of write_all calls
    wresult,    \* to_writer's outcome: pending, Ok, Err, panic
    peak,       \* history: the highest level open_level has returned in this call
    input,      \* main's PkgType::Other(input): the file name, split at its dots
    stage       \* where main is with the input: start, unpack, plain, unpacked, panic_*

vars == <<value, ser, stack, result, sink, writes, wresult, peak, input, stage>>

output == ser.output
level == ser.level
key_name == ser.key_name
disable_write_key == ser.disable_write_key

Frame(op, v, i) == [op |-> op, v |-> v, i |-> i]

Res(tag, l) == [tag |-> tag, level |-> l]

Running == result.tag = "running" /\ stack # <<>>
Top == Head(stack)
Rest == Tail(stack)

(***************************************************************************)
(* Input values.                                                            *)
(***************************************************************************)
Scalars == {Str(<<>>), Str(<<"x">>), Bool(TRUE), Bool(FALSE), NoneVal}
StrVals == {Str(<<>>), Str(<<"x">>)}
EntryVals == {Str(<<"x">>), Bool(TRUE), NoneVal}
Kinds == {"seq", "map", "struct"}
Keyed == {"map", "struct"}

\* scalars and composites of scalars
Shallow ==
    Scalars
    \cup {SeqVal(items) : items \in SeqsUpTo(StrVals, MaxItems)}
    \cup {Composite(k, vals) : k \in Keyed, vals \in SeqsUpTo(EntryVals, MaxItems)}

\* a few values of every shape, for composites with several children
Narrow ==
    {Str(<<"x">>), SeqVal(<<Str(<<"x">>)>>), SeqVal(<<>>),
     MapVal(<<Str(<<"x">>)>>), MapVal(<<>>),
     StructVal(<<Str(<<"x">>)>>), StructVal(<<>>)}

\* one section holding one field of any shallow value
OneFieldDocs ==
    {Composite(r, <<Composite(g, <<v>>)>>) : r \in Keyed, g \in Keyed, v \in Shallow}

\* one section holding several fields
WideDocs ==
    {StructVal(<<Composite(g, vals)>>) : g \in Kinds, vals \in SeqsUpTo(Narrow, MaxFields)}

\* several top-level fields
MultiSection ==
    {Composite(r, vals) : r \in Kinds, vals \in SeqsUpTo(Narrow, MaxFields)}

\* one section of scalar fields
ScalarSections ==
    {StructVal(<<StructVal(vals)>>) : vals \in SeqsUpTo(Scalars, MaxItems)}

\* chains of at most d nested composites, each with no child, one child, or a
\* string and one child
RECURSIVE Chains(_)
Chains(d) ==
    IF d = 0 THEN {Str(<<"x">>)}
    ELSE {Str(<<"x">>)}
         \cup {Composite(k, <<>>) : k \in Kinds}
         \cup {Composite(k, <<c>>) : k \in Kinds, c \in Chains(d - 1)}
         \cup {Composite(k, <<Str(<<"x">>), c>>) : k \in Keyed, c \in Chains(d - 1) \ {Str(<<"x">>)}}

\* tuples, tuple structs and tuple variants of strings
TupleLikes ==
    {TupleVal(k, items) : k \in {"tuple", "tuple_struct"}, items \in SeqsUpTo(StrVals, MaxItems)}
    \cup {TupleVariantVal(<<"V">>, items) : items \in SeqsUpTo(StrVals, MaxItems)}

\* a tuple at the root, alone in a section, and followed by a string field
TupleDocs ==
    TupleLikes
    \cup {StructVal(<<StructVal(<<tp>>)>>) : tp \in TupleLikes}
    \cup {StructVal(<<Composite(g, <<tp, Str(<<"x">>)>>)>>) : g \in Keyed, tp \in TupleLikes}

ByteVals == {0, 61, 255}

\* a byte slice at the root and as the one field of a section
BytesDocs ==
    {BytesVal(bs) : bs \in SeqsUpTo(ByteVals, MaxItems)}
    \cup {StructVal(<<Composite(g, <<BytesVal(bs)>>)>>) :
              g \in Keyed, bs \in SeqsUpTo(ByteVals, MaxItems)}

\* sequences whose items are strings or sequences of at most one string
NestedItems == {Str(<<"x">>), SeqVal(<<>>), SeqVal(<<Str(<<"x">>)>>)}

NestedSeqDocs ==
    {StructVal(<<StructVal(<<SeqVal(items)>>)>>) : items \in SeqsUpTo(NestedItems, MaxItems)}

\* the records main builds: any name, an icon or none, categories, terminal
DesktopFiles ==
    {DesktopFile_new(n.s, ic, cats, term) :
        n \in StrVals, ic \in {NoneVal, SomeVal(Str(<<"x">>))},
        cats \in SeqsUpTo(StrVals, MaxItems), term \in BOOLEAN}

Inputs ==
    OneFieldDocs \cup WideDocs \cup MultiSection \cup ScalarSections \cup Chains(MaxDepth)
    \cup TupleDocs \cup BytesDocs \cup NestedSeqDocs \cup DesktopFiles

(***************************************************************************)
(* to_string: a fresh Serializer, then value.serialize(&mut serializer).    *)
(***************************************************************************)
Init ==
    /\ value \in Inputs
    /\ ser = NewSerializer(FALSE)
    /\ stack = <<Frame("value", value, 0)>>
    /\ result = Res("running", 0)
    /\ sink = <<>>
    /\ writes = 0
    /\ wresult = "pending"
    /\ peak = 0
    /\ input = <<"app">>
    /\ stage = "plain"

IO == <<sink, writes, wresult, peak, input, stage>>

\* a panic unwinds the whole call, to_writer included
Panic ==
    /\ result' = Res("panic", 0)
    /\ wresult' = "panic"
    /\ stack' = <<>>
    /\ UNCHANGED <<value, ser, sink, writes, peak, input, stage>>

\* a scalar handler: panics in write_pre_val or appends and returns
Scalar(next) ==
    IF PreValPanics(ser)
    THEN Panic
    ELSE /\ ser' = next
         /\ stack' = Rest
         /\ UNCHANGED <<value, result, IO>>

SerializeBool ==
    /\ Running /\ Top.op = "value" /\ Top.v.t = "bool"
    /\ Scalar(serialize_bool(ser, Top.v.b))

SerializeStr ==
    /\ Running /\ Top.op = "value" /\ Top.v.t = "str"
    /\ Scalar(serialize_str(ser, Top.v.s))

SerializeNone ==
    /\ Running /\ Top.op = "value" /\ Top.v.t = "none"
    /\ Scalar(serialize_none(ser))

SerializeU8 ==
    /\ Running /\ Top.op = "value" /\ Top.v.t = "u8"
    /\ Scalar(serialize_u8(ser, Top.v.n))

\* serialize_some: the inner value is serialized in its place
SerializeSome ==
    /\ Running /\ Top.op = "value" /\ Top.v.t = "some"
    /\ stack' = <<Frame("value", Top.v.kids[1], 0)>> \o Rest
    /\ UNCHANGED <<value, ser, result, IO>>

(***************************************************************************)
(* Sequences.                                                               *)
(***************************************************************************)
serialize_seq(s) == [write_pre_val(s) EXCEPT !.disable_write_key = TRUE]

SerializeSeq ==
    /\ Running /\ Top.op = "value" /\ Top.v.t = "seq"
    /\ IF PreValPanics(ser)
       THEN Panic
       ELSE /\ ser' = serialize_seq(ser)
            /\ stack' = <<Frame("seq", Top.v, 1)>> \o Rest
            /\ UNCHANGED <<value, result, IO>>

\* serialize_bytes up to its loop: the bytes then go through
\* SerializeSeq::serialize_element and the end through SerializeSeq::end
serialize_bytes(s) == serialize_seq([write_pre_val(s) EXCEPT !.disable_write_key = TRUE])

SerializeBytes ==
    /\ Running /\ Top.op = "value" /\ Top.v.t = "bytes"
    /\ IF PreValPanics(ser)
       THEN Panic
       ELSE /\ ser' = serialize_bytes(ser)
            /\ stack' = <<Frame("seq", Top.v, 1)>> \o Rest
            /\ UNCHANGED <<value, result, IO>>

\* SerializeSeq::serialize_element up to its call of value.serialize
seq_separator(s) == IF ~ends_with_eq(s.output) THEN Push(s, <<";">>) ELSE s

SerializeElement ==
    /\ Running /\ Top.op = "seq" /\ Top.i <= Len(Top.v.kids)
    /\ ser' = seq_separator(ser)
    /\ stack' = <<Frame("value", Top.v.kids[Top.i], 0), Frame("seq", Top.v, Top.i + 1)>> \o Rest
    /\ UNCHANGED <<value, result, IO>>

\* (mutant) no terminator
seq_end_NoTerminator(s) == [s EXCEPT !.disable_write_key = FALSE]

\* SerializeSeq::end
seq_end(s) == [Push(s, <<";">>) EXCEPT !.disable_write_key = FALSE]

SeqEnd ==
    /\ Running /\ Top.op = "seq" /\ Top.i > Len(Top.v.kids)
    /\ ser' = seq_end(ser)
    /\ stack' = Rest
    /\ UNCHANGED <<value, result, IO>>

(***************************************************************************)
(* Tuples, tuple structs and tuple variants.                                *)
(***************************************************************************)
serialize_tuple(s) == serialize_seq(s)

serialize_tuple_struct(s) == serialize_seq(s)

SerializeTuple ==
    /\ Running /\ Top.op = "value" /\ Top.v.t = "tuple"
    /\ IF PreValPanics(ser)
       THEN Panic
       ELSE /\ ser' = serialize_tuple(ser)
            /\ stack' = <<Frame("tuple", Top.v, 1)>> \o Rest
            /\ UNCHANGED <<value, result, IO>>

SerializeTupleStruct ==
    /\ Running /\ Top.op = "value" /\ Top.v.t = "tuple_struct"
    /\ IF PreValPanics(ser)
       THEN Panic
       ELSE /\ ser' = serialize_tuple_struct(ser)
            /\ stack' = <<Frame("tuple", Top.v, 1)>> \o Rest
            /\ UNCHANGED <<value, result, IO>>

\* "{", the variant through serialize_str, ":["
serialize_tuple_variant(s, variant) ==
    Push(serialize_str(Push(write_pre_val(s), <<"{">>), variant), <<":", "[">>)

SerializeTupleVariant ==
    /\ Running /\ Top.op = "value" /\ Top.v.t = "tuple_variant"
    /\ IF PreValPanics(ser)
       THEN Panic
       ELSE /\ ser' = serialize_tuple_variant(ser, Top.v.s)
            /\ stack' = <<Frame("tuple", Top.v, 1)>> \o Rest
            /\ UNCHANGED <<value, result, IO>>

\* serialize_element of SerializeTuple, serialize_field of SerializeTupleStruct
\* and of SerializeTupleVariant, up to the call of value.serialize
tuple_separator(s) == IF ~ends_with_eq(s.output) THEN Push(s, <<";">>) ELSE s

TupleElement ==
    /\ Running /\ Top.op = "tuple" /\ Top.i <= Len(Top.v.kids)
    /\ ser' = tuple_separator(ser)
    /\ stack' = <<Frame("value", Top.v.kids[Top.i], 0), Frame("tuple", Top.v, Top.i + 1)>> \o Rest
    /\ UNCHANGED <<value, result, IO>>

\* end of SerializeTuple, SerializeTupleStruct and SerializeTupleVariant
tuple_end(s) == Push(s, <<";">>)

TupleEnd ==
    /\ Running /\ Top.op = "tuple" /\ Top.i > Len(Top.v.kids)
    /\ ser' = tuple_end(ser)
    /\ stack' = Rest
    /\ UNCHANGED <<value, result, IO>>

(***************************************************************************)
(* Maps and structs.                                                        *)
(***************************************************************************)
\* (mutant) the map is begun without opening a level
serialize_map_NoOpen(s) == s

serialize_map(s) == open_level(s)

serialize_struct(s) == serialize_map(s)

SerializeMap ==
    /\ Running /\ Top.op = "value" /\ Top.v.t = "map"
    /\ ser' = serialize_map(ser)
    /\ peak' = IF ser'.level > peak THEN ser'.level ELSE peak
    /\ stack' = <<Frame("map", Top.v, 1)>> \o Rest
    /\ UNCHANGED <<value, result, sink, writes, wresult, input, stage>>

SerializeStruct ==
    /\ Running /\ Top.op = "value" /\ Top.v.t = "struct"
    /\ ser' = serialize_struct(ser)
    /\ peak' = IF ser'.level > peak THEN ser'.level ELSE peak
    /\ stack' = <<Frame("struct", Top.v, 1)>> \o Rest
    /\ UNCHANGED <<value, result, sink, writes, wresult, input, stage>>

\* (mutant) no ceiling: a level above 3 is accepted and adds nothing
KeyOutcome_NoCeiling(s) ==
    CASE s.level = 0 -> "panic"
      [] s.level = 3 -> IF s.key_name = <<>> THEN "panic" ELSE "ok"
      [] OTHER -> "ok"

\* the match on the level in serialize_key and serialize_field: which of
\* panic, Err and the arms 1, 2, 3 it takes
KeyOutcome(s) ==
    CASE s.level = 0 -> "panic"
      [] s.level = 1 -> "ok"
      [] s.level = 2 -> "ok"
      [] s.level = 3 -> IF s.key_name = <<>> THEN "panic" ELSE "ok"
      [] OTHER -> "err"

\* (mutant) the arm 3 leaves out the pending key
key_arm_NoOuterKey(s, key, stored) ==
    CASE s.level = 1 -> Push(serialize_str(Push(s, <<"[">>), key), <<"]", "\n">>)
      [] s.level = 2 -> set_key(s, stored)
      [] s.level = 3 -> Push(serialize_str(Push(s, <<"[">>), key), <<"]", "=">>)
      [] OTHER -> s

\* the arms 1, 2, 3 of the match; stored is what the arm 2 stores as the key
key_arm(s, key, stored) ==
    CASE s.level = 1 -> Push(serialize_str(Push(s, <<"[">>), key), <<"]", "\n">>)
      [] s.level = 2 -> set_key(s, stored)
      [] s.level = 3 -> Push(serialize_str(Push(Push(s, s.key_name[1]), <<"[">>), key), <<"]", "=">>)
      [] OTHER -> s

serialize_key(s, key) == key_arm(s, key, TempSerOutput(key))

serialize_field_key(s, key) == key_arm(s, key, key)

\* SerializeMap::serialize_key: the entry's key
SerializeKey ==
    /\ Running /\ Top.op = "map" /\ Top.i <= Len(Top.v.kids)
    /\ CASE KeyOutcome(ser) = "panic" -> Panic
         [] KeyOutcome(ser) = "err" ->
               /\ result' = Res("raising", ser.level)
               /\ UNCHANGED <<value, ser, stack, IO>>
         [] OTHER ->
               /\ ser' = serialize_key(ser, KeyNames[Top.i])
               /\ stack' = <<Frame("map_value", Top.v, Top.i)>> \o Rest
               /\ UNCHANGED <<value, result, IO>>

\* SerializeMap::serialize_value up to its call of value.serialize
SerializeValue ==
    /\ Running /\ Top.op = "map_value"
    /\ stack' = <<Frame("value", Top.v.kids[Top.i], 0), Frame("value_ret", Top.v, Top.i)>> \o Rest
    /\ UNCHANGED <<value, ser, result, IO>>

\* SerializeMap::serialize_value after value.serialize returned Ok
serialize_value_ret(s) == Push(s, NL)

SerializeValueRet ==
    /\ Running /\ Top.op = "value_ret"
    /\ ser' = serialize_value_ret(ser)
    /\ stack' = <<Frame("map", Top.v, Top.i + 1)>> \o Rest
    /\ UNCHANGED <<value, result, IO>>

map_end(s) == close_level(s)

MapEnd ==
    /\ Running /\ Top.op = "map" /\ Top.i > Len(Top.v.kids)
    /\ ser' = map_end(ser)
    /\ stack' = Rest
    /\ UNCHANGED <<value, result, IO>>

\* SerializeStruct::serialize_field up to its call of value.serialize
SerializeField ==
    /\ Running /\ Top.op = "struct" /\ Top.i <= Len(Top.v.kids)
    /\ ~skip_serializing_if(Top.v, Top.i)
    /\ CASE KeyOutcome(ser) = "panic" -> Panic
         [] KeyOutcome(ser) = "err" ->
               /\ result' = Res("raising", ser.level)
               /\ UNCHANGED <<value, ser, stack, IO>>
         [] OTHER ->
               /\ ser' = serialize_field_key(ser, field_name(Top.v, Top.i))
               /\ stack' = <<Frame("value", Top.v.kids[Top.i], 0), Frame("field_ret", Top.v, Top.i)>> \o Rest
               /\ UNCHANGED <<value, result, IO>>

\* the derived Serialize impl skips a field whose skip_serializing_if holds
\* (SerializeStruct::skip_field does nothing)
SkipField ==
    /\ Running /\ Top.op = "struct" /\ Top.i <= Len(Top.v.kids)
    /\ skip_serializing_if(Top.v, Top.i)
    /\ stack' = <<Frame("struct", Top.v, Top.i + 1)>> \o Rest
    /\ UNCHANGED <<value, ser, result, IO>>

\* (mutant) no newline after the value
serialize_field_ret_NoNewline(s) == s

\* SerializeStruct::serialize_field after value.serialize returned Ok
serialize_field_ret(s) == Push(s, NL)

SerializeFieldRet ==
    /\ Running /\ Top.op = "field_ret"
    /\ ser' = serialize_field_ret(ser)
    /\ stack' = <<Frame("struct", Top.v, Top.i + 1)>> \o Rest
    /\ UNCHANGED <<value, result, IO>>

struct_end(s) == s

StructEnd ==
    /\ Running /\ Top.op = "struct" /\ Top.i > Len(Top.v.kids)
    /\ ser' = struct_end(ser)
    /\ stack' = Rest
    /\ UNCHANGED <<value, result, IO>>

(***************************************************************************)
(* Errors and the entry points.                                             *)
(***************************************************************************)
\* (mutant) a caller drops the Err of its child and carries on
Propagate_Swallows ==
    /\ result.tag = "raising" /\ stack # <<>>
    /\ result' = Res("running", 0)
    /\ stack' = Rest
    /\ UNCHANGED <<value, ser, IO>>

\* the ? operator: every caller on the stack returns the Err at once
Propagate ==
    /\ result.tag = "raising" /\ stack # <<>>
    /\ stack' = Rest
    /\ UNCHANGED <<value, ser, result, IO>>

\* to_string returns Ok(serializer.output), or the Err of value.serialize
ToStringReturn ==
    /\ stack = <<>>
    /\ result.tag \in {"running", "raising"}
    /\ result' = IF result.tag = "running" THEN Res("Ok", 0) ELSE Res("Err", result.level)
    /\ UNCHANGED <<value, ser, stack, IO>>

\* (mutant) the text built so far is written whatever to_string returned
to_writer_writes_Always(tag) == TRUE

\* the ? on to_string's return value: write_all runs only on Ok
to_writer_writes(tag) == tag = "Ok"

\* to_writer: writer.write_all(to_string(value)?.as_bytes()).unwrap(); Ok(())
ToWriter ==
    /\ wresult = "pending"
    /\ result.tag \in {"Ok", "Err"}
    /\ IF to_writer_writes(result.tag)
       THEN /\ sink' = sink \o ser.output
            /\ writes' = writes + 1
            /\ wresult' = "Ok"
       ELSE /\ wresult' = "Err"
            /\ UNCHANGED <<sink, writes>>
    /\ UNCHANGED <<value, ser, stack, result, peak, input, stage>>

Next ==
    \/ SerializeBool
    \/ SerializeStr
    \/ SerializeNone
    \/ SerializeU8
    \/ SerializeSome
    \/ SerializeBytes
    \/ SerializeTuple
    \/ SerializeTupleStruct
    \/ SerializeTupleVariant
    \/ TupleElement
    \/ TupleEnd
    \/ SkipField
    \/ SerializeSeq
    \/ SerializeElement
    \/ SeqEnd
    \/ SerializeMap
    \/ SerializeStruct
    \/ SerializeKey
    \/ SerializeValue
    \/ SerializeValueRet
    \/ MapEnd
    \/ SerializeField
    \/ SerializeFieldRet
    \/ StructEnd
    \/ Propagate
    \/ ToStringReturn
    \/ ToWriter

Spec == Init /\ [][Next]_vars

\* the call runs to completion: nothing suspends it
FairSpec == Spec /\ WF_vars(Next)

Finished == result.tag \in {"Ok", "Err", "panic"}

(***************************************************************************)
(* main on PkgType::Other(input), before the desktop file is built: the     *)
(* input is unpacked when is_archive accepts it.                            *)
(***************************************************************************)
Encoder == <<value, ser, stack, result, sink, writes, wresult, peak>>

ArchiveInit ==
    /\ input \in FileNames
    /\ stage = "start"
    /\ value = DesktopFile_new(<<"x">>, SomeVal(Str(<<"x">>)), <<>>, FALSE)
    /\ ser = NewSerializer(FALSE)
    /\ stack = <<Frame("value", value, 0)>>
    /\ result = Res("running", 0)
    /\ sink = <<>>
    /\ writes = 0
    /\ wresult = "pending"
    /\ peak = 0

\* if archive::is_archive(&input) { .. } else { input }
MainIsArchive ==
    /\ stage = "start"
    /\ stage' = IF is_archive(input) THEN "unpack" ELSE "plain"
    /\ UNCHANGED <<input, Encoder>>

\* archive::unarchive(&input, &tmp_path).unwrap()
MainUnarchive ==
    /\ stage = "unpack"
    /\ \E cmd_ok \in BOOLEAN :
         stage' = CASE unarchive(input, cmd_ok) = "Ok" -> "unpacked"
                    [] unarchive(input, cmd_ok) = "Err" -> "panic_unsupported"
                    [] OTHER -> "panic_command"
    /\ UNCHANGED <<input, Encoder>>

ArchiveNext ==
    \/ MainIsArchive
    \/ MainUnarchive

ArchiveSpec == ArchiveInit /\ [][ArchiveNext]_vars


(***************************************************************************)
(* Reading the text: lines, section headers, expected renderings.           *)
(***************************************************************************)
\* the text of the lines of out, each without its "\n"; an unterminated
\* tail is the last line
RECURSIVE LinesFrom(_, _, _)
LinesFrom(out, i, cur) ==
    IF i > Len(out) THEN (IF cur = <<>> THEN <<>> ELSE <<cur>>)
    ELSE IF out[i] = "\n" THEN <<cur>> \o LinesFrom(out, i + 1, <<>>)
    ELSE LinesFrom(out, i + 1, Append(cur, out[i]))

Lines(out) == LinesFrom(out, 1, <<>>)

IsHeaderLine(line) == Len(line) >= 2 /\ line[1] = "[" /\ line[Len(line)] = "]"

HeaderLines(out) == SelectSeq(Lines(out), IsHeaderLine)

HeaderLine(i) == <<"[">> \o KeyNames[i] \o <<"]">>

RECURSIVE Flatten(_)
Flatten(texts) == IF texts = <<>> THEN <<>> ELSE Head(texts) \o Flatten(Tail(texts))

\* the token of a scalar
Token(v) ==
    CASE v.t = "str" -> v.s
      [] v.t = "bool" -> (IF v.b THEN <<"t", "r", "u", "e">> ELSE <<"f", "a", "l", "s", "e">>)
      [] OTHER -> <<>>

ReturnedOk == result.tag = "Ok"

(***************************************************************************)
(* C1: for a root struct with n top-level fields, whatever their values,    *)
(* the text to_string returns has exactly n section header lines            *)
(* "[<field>]", one per field, in declaration order.                        *)
(***************************************************************************)
C1_SectionHeaders ==
    (ReturnedOk /\ value.t = "struct")
        => HeaderLines(output) =
               [i \in 1..Len(value.kids) |-> <<"[">> \o field_name(value, i) \o <<"]">>]

(***************************************************************************)
(* C2: a value nested Map -> Map -> Struct -> Struct, every composite with  *)
(* at least one entry, makes to_string return the depth error; it never     *)
(* returns Ok.                                                              *)
(***************************************************************************)
HasEntry(v, k) == \E i \in 1..Len(v.kids) : v.kids[i].t = k

\* v is a map holding a map holding a struct holding a non-empty struct
IsMapMapStructStruct(v) ==
    /\ v.t = "map"
    /\ \E i \in 1..Len(v.kids) :
         /\ v.kids[i].t = "map"
         /\ \E j \in 1..Len(v.kids[i].kids) :
              /\ v.kids[i].kids[j].t = "struct"
              /\ \E k \in 1..Len(v.kids[i].kids[j].kids) :
                   /\ v.kids[i].kids[j].kids[k].t = "struct"
                   /\ Len(v.kids[i].kids[j].kids[k].kids) >= 1

C2_FourLevelsFail ==
    IsMapMapStructStruct(value)
        => /\ result.tag \notin {"Ok", "panic"}
           /\ result.tag = "Err" => result.level = 4
           /\ wresult \in {"pending", "Err"}

C2_Witness == IsMapMapStructStruct(value) /\ result = Res("Err", 4)

(***************************************************************************)
(* C3: to_writer writes to the sink only after to_string succeeded: on an   *)
(* encoding error the sink has received nothing and to_writer returns the   *)
(* error; on success the sink receives exactly the encoded text, once.      *)
(***************************************************************************)
C3_WriteAfterEncode ==
    /\ result.tag # "Ok" => (sink = <<>> /\ writes = 0)
    /\ result.tag = "Err" => wresult \in {"pending", "Err"}
    /\ wresult = "Err" => (result.tag = "Err" /\ sink = <<>> /\ writes = 0)
    /\ wresult = "Ok" => (result.tag = "Ok" /\ sink = output /\ writes = 1)
    /\ wresult = "pending" => (sink = <<>> /\ writes = 0)

C3_Witness == wresult = "Err" /\ output # <<>> /\ sink = <<>>

C3_WitnessOk == wresult = "Ok" /\ sink = output /\ output # <<>>


(***************************************************************************)
(* C4: a root struct with the single field G whose value is a struct of     *)
(* string fields f1..fm (m >= 1) encodes as "[G]\n", one line "<fi>=<vi>\n" *)
(* per field in declaration order, and one final "\n".                      *)
(***************************************************************************)
IsStringSection(v) ==
    /\ v.t = "struct" /\ Len(v.kids) = 1
    /\ v.kids[1].t = "struct" /\ Len(v.kids[1].kids) >= 1
    /\ \A i \in 1..Len(v.kids[1].kids) : v.kids[1].kids[i].t = "str"

StringSectionText(v) ==
    HeaderLine(1) \o NL
    \o Flatten([i \in 1..Len(v.kids[1].kids) |->
                   KeyNames[i] \o <<"=">> \o v.kids[1].kids[i].s \o NL])
    \o NL

C4_StringSection ==
    (IsStringSection(value) /\ Finished)
        => (ReturnedOk /\ output = StringSectionText(value))

C4_Witness ==
    /\ IsStringSection(value) /\ ReturnedOk
    /\ Len(value.kids[1].kids) >= 2
    /\ value.kids[1].kids[1].s # <<>>

(***************************************************************************)
(* C5: a map that is the value of field F of a section struct renders each  *)
(* entry (k, v) with scalar v as one line "<F>[<k>]=<v>\n", in iteration    *)
(* order, and the bare prefix "<F>=" is not emitted for that field.         *)
(***************************************************************************)
IsScalarMap(v) ==
    v.t = "map" /\ \A i \in 1..Len(v.kids) : IsScalar(v.kids[i])

\* a root with one section struct whose fields are strings or maps of scalars
IsMapSection(v) ==
    /\ v.t \in {"struct", "map"} /\ Len(v.kids) = 1
    /\ v.kids[1].t = "struct"
    /\ \A i \in 1..Len(v.kids[1].kids) :
         v.kids[1].kids[i].t = "str" \/ IsScalarMap(v.kids[1].kids[i])
    /\ \E i \in 1..Len(v.kids[1].kids) :
         IsScalarMap(v.kids[1].kids[i]) /\ Len(v.kids[1].kids[i].kids) >= 1

\* the lines of the map m held by field f
MapFieldText(f, m) ==
    Flatten([j \in 1..Len(m.kids) |->
                KeyNames[f] \o <<"[">> \o KeyNames[j] \o <<"]", "=">> \o Token(m.kids[j]) \o NL])

MapSectionText(v) ==
    HeaderLine(1) \o NL
    \o Flatten([i \in 1..Len(v.kids[1].kids) |->
                   IF v.kids[1].kids[i].t = "str"
                   THEN KeyNames[i] \o <<"=">> \o v.kids[1].kids[i].s \o NL
                   ELSE MapFieldText(i, v.kids[1].kids[i]) \o NL])
    \o NL

C5_MapEntries ==
    (IsMapSection(value) /\ Finished)
        => (ReturnedOk /\ output = MapSectionText(value))

C5_Witness ==
    /\ IsMapSection(value) /\ ReturnedOk
    /\ Len(value.kids[1].kids[1].kids) >= 2

(***************************************************************************)
(* C6: a sequence of k >= 1 string items that is the value of key F at      *)
(* depth 2 renders as "<F>=<i1>;<i2>;...;<ik>;\n": the items in order,      *)
(* each followed by ';'.                                                    *)
(***************************************************************************)
IsSeqSection(v) ==
    /\ v.t = "struct" /\ Len(v.kids) = 1
    /\ v.kids[1].t = "struct" /\ Len(v.kids[1].kids) = 1
    /\ v.kids[1].kids[1].t = "seq"
    /\ \A i \in 1..Len(v.kids[1].kids[1].kids) : v.kids[1].kids[1].kids[i].t = "str"

SeqItems(v) == v.kids[1].kids[1].kids

C6_StringSeq ==
    (IsSeqSection(value) /\ Len(SeqItems(value)) >= 1 /\ Finished)
        => /\ ReturnedOk
           /\ output = HeaderLine(1) \o NL
                       \o KeyNames[1] \o <<"=">>
                       \o Flatten([i \in 1..Len(SeqItems(value)) |-> SeqItems(value)[i].s \o <<";">>])
                       \o NL \o NL

(***************************************************************************)
(* C7: an empty sequence renders as the empty string; as the value of key   *)
(* F at depth 2 the line is "<F>=\n".                                       *)
(***************************************************************************)
C7_EmptySeqIsEmpty ==
    (IsSeqSection(value) /\ SeqItems(value) = <<>> /\ Finished)
        => /\ ReturnedOk
           /\ output = HeaderLine(1) \o NL \o KeyNames[1] \o <<"=">> \o NL \o NL

(***************************************************************************)
(* C7 (amended): an empty sequence renders as its terminator ";" alone; as  *)
(* the value of key F at depth 2 the line is "<F>=;\n".                     *)
(***************************************************************************)
C7_EmptySeqIsTerminator ==
    (IsSeqSection(value) /\ SeqItems(value) = <<>> /\ Finished)
        => /\ ReturnedOk
           /\ output = HeaderLine(1) \o NL \o KeyNames[1] \o <<"=", ";">> \o NL \o NL

C7_Witness == IsSeqSection(value) /\ SeqItems(value) = <<>> /\ ReturnedOk

(***************************************************************************)
(* C8: whenever a map or struct, empty or not, is begun while the depth is  *)
(* already 3, the encode call ends with an error instead of Ok.             *)
(***************************************************************************)
C8_FourthLevelFails == peak >= 4 => ~ReturnedOk

(***************************************************************************)
(* C9: as the value of key F at depth 2 a bool renders "<F>=true\n" or      *)
(* "<F>=false\n" and an absent optional renders "<F>=\n".                   *)
(***************************************************************************)
\* a root with one section (map or struct) of one field holding a bool or None
IsFlagSection(v) ==
    /\ v.t \in {"struct", "map"} /\ Len(v.kids) = 1
    /\ v.kids[1].t \in {"struct", "map"} /\ Len(v.kids[1].kids) = 1
    /\ v.kids[1].kids[1].t \in {"bool", "none"}

FlagText(v) ==
    CASE v.t = "bool" /\ v.b -> <<"t", "r", "u", "e">>
      [] v.t = "bool" /\ ~v.b -> <<"f", "a", "l", "s", "e">>
      [] v.t = "none" -> <<>>

C9_BoolAndNone ==
    (IsFlagSection(value) /\ Finished)
        => /\ ReturnedOk
           /\ output = HeaderLine(1) \o NL
                       \o KeyNames[1] \o <<"=">> \o FlagText(value.kids[1].kids[1]) \o NL
                       \o NL

C9_Witness ==
    /\ IsFlagSection(value) /\ ReturnedOk
    /\ value.kids[1].kids[1] = Bool(FALSE)

C9_WitnessNone ==
    /\ IsFlagSection(value) /\ ReturnedOk
    /\ value.kids[1].kids[1] = NoneVal

(***************************************************************************)
(* C10: every encode call ends in Ok(text) or Err, and input nested deeper  *)
(* than three map/struct levels ends in an error.                           *)
(***************************************************************************)
\* the deepest nesting of maps and structs in v
RECURSIVE NestedLevels(_)
NestedLevels(v) ==
    LET below == {NestedLevels(v.kids[i]) : i \in 1..Len(v.kids)} \cup {0}
        deepest == CHOOSE d \in below : \A e \in below : e <= d
    IN  IF v.t \in {"map", "struct"} THEN deepest + 1 ELSE deepest

C10_EndsOkOrErr ==
    Finished => /\ result.tag \in {"Ok", "Err"}
                /\ NestedLevels(value) > 3 => result.tag = "Err"

\* the part of C10 that holds, under FairSpec: every call ends, be it in Ok,
\* Err or a panic
Terminates == <>Finished


(***************************************************************************)
(* C11: an encoding error is terminal for the call: once a key or value     *)
(* has failed, no further encoder step runs (no text is appended, depth,    *)
(* pending key and flag stay as they are), every enclosing composite        *)
(* returns the same error, nothing reaches the sink, and to_string returns  *)
(* Err, never Ok.                                                           *)
(***************************************************************************)
Failed == result.tag \in {"raising", "Err"}

C11_ErrorIsTerminal ==
    [][Failed => /\ ser' = ser
                 /\ result'.tag \in {"raising", "Err"}
                 /\ result'.level = result.level
                 /\ (stack' = stack \/ (stack # <<>> /\ stack' = Tail(stack)))
                 /\ sink' = <<>> /\ writes' = 0]_vars

C11_Witness == result.tag = "Err" /\ output # <<>> /\ wresult = "Err"


(***************************************************************************)
(* C13: in every reachable state of an encode call the depth is one of      *)
(* 0, 1, 2, 3; it never reaches 4, not even between opening a composite     *)
(* and serializing its first key.                                           *)
(***************************************************************************)
C13_DepthWithinThree == level \in 0..3

(***************************************************************************)
(* C14: the pending key is written only while the depth is 2; close_level   *)
(* clears it exactly when leaving depth 2, open_level and the other closes  *)
(* leave it alone; so no pending key is set while the depth is 0 or 1.      *)
(***************************************************************************)
C14_PendingKey ==
    /\ [](level <= 1 => key_name = <<>>)
    /\ [][/\ (key_name' # key_name /\ key_name' # <<>>) => (level = 2 /\ level' = 2)
          /\ (level = 2 /\ level' = 1) => key_name' = <<>>
          /\ (key_name # <<>> /\ key_name' = <<>>) => (level = 2 /\ level' = 1)
          /\ (level' # level /\ ~(level = 2 /\ level' = 1)) => key_name' = key_name]_vars

\* back at depth 1 after a key was stored and used at depth 2
C14_Witness ==
    /\ level = 1 /\ key_name = <<>> /\ peak >= 2
    /\ \E i \in 1..Len(output) : output[i] = "="

(***************************************************************************)
(* C18: whenever a map key or a struct field is serialized the depth is at  *)
(* least 1: the depth-0 arm of serialize_key / serialize_field is never     *)
(* taken.                                                                   *)
(***************************************************************************)
\* the next step serializes a key or a field
AtKey ==
    /\ Running /\ Top.op \in {"map", "struct"} /\ Top.i <= Len(Top.v.kids)
    /\ ~(Top.op = "struct" /\ skip_serializing_if(Top.v, Top.i))

C18_KeyBelowRoot == AtKey => level >= 1

C18_Witness == AtKey /\ level = 1 /\ stack = <<Top>>

(***************************************************************************)
(* C19: opens and closes are balanced: the depth is the number of maps and  *)
(* structs being encoded, so after a composite has ended the depth is what  *)
(* it was before it was opened, and it is 0 when a call returns Ok.         *)
(***************************************************************************)
IsOpenComposite(f) == f.op \in {"map", "map_value", "value_ret", "struct", "field_ret"}

C19_Balanced ==
    result.tag \in {"running", "Ok"} => level = Len(SelectSeq(stack, IsOpenComposite))


(***************************************************************************)
(* C16: a sequence of N >= 1 scalar items contributes, wherever it appears  *)
(* and whatever the item texts are, its N tokens in order with a ';'        *)
(* before every item but the first and one trailing ';': no leading ';'.    *)
(* Stated for the sequence at the root and for the sequence under a key at  *)
(* depth 2.                                                                 *)
(***************************************************************************)
IsScalarSeq(v) ==
    v.t = "seq" /\ Len(v.kids) >= 1 /\ \A i \in 1..Len(v.kids) : IsScalar(v.kids[i])

\* the text the claim gives the sequence v
SeqText(v) == Flatten([i \in 1..Len(v.kids) |-> Token(v.kids[i]) \o <<";">>])

C16_SeqTokens ==
    /\ (IsScalarSeq(value) /\ Finished)
           => (ReturnedOk /\ output = SeqText(value))
    /\ (IsSeqSection(value) /\ IsScalarSeq(value.kids[1].kids[1]) /\ Finished)
           => /\ ReturnedOk
              /\ output = HeaderLine(1) \o NL
                          \o KeyNames[1] \o <<"=">> \o SeqText(value.kids[1].kids[1])
                          \o NL \o NL

(***************************************************************************)
(* C17: serializing a map key or a struct field name while the depth is 2   *)
(* only stores the key as the pending key: output, depth and flag are       *)
(* unchanged; the key first reaches the output as "<key>=" when the scalar  *)
(* value that follows is emitted, and a "\n" follows that value.            *)
(***************************************************************************)
\* the next step emits the scalar value of an entry whose key was stored
AtEntryScalar ==
    /\ Running /\ Top.op = "value" /\ IsScalar(Top.v)
    /\ Len(stack) >= 2 /\ stack[2].op \in {"field_ret", "value_ret"}
    /\ level = 2

AtEntryReturn == Running /\ Top.op \in {"field_ret", "value_ret"}

C17_KeyIsStored ==
    [][/\ (AtKey /\ level = 2)
             => ser' = [ser EXCEPT !.key_name = <<field_name(Top.v, Top.i)>>]
       /\ AtEntryScalar
             => /\ key_name # <<>>
                /\ output' = output \o key_name[1] \o <<"=">> \o Token(Top.v)
       /\ AtEntryReturn => output' = output \o NL]_vars


(***************************************************************************)
(* C20: a tuple, a tuple struct and the body of a tuple variant are encoded *)
(* exactly like a sequence with the same items: every handler of theirs     *)
(* (begin, element, end) does to the Serializer what the sequence's handler *)
(* does in the same state, so the same text is appended and the same state  *)
(* is left, the key-suppression flag being off after the close.             *)
(***************************************************************************)
\* the begin of a tuple or tuple struct (a tuple variant's begin writes its
\* name; only its body is compared)
AtTupleBegin ==
    /\ Running /\ Top.op = "value" /\ Top.v.t \in {"tuple", "tuple_struct"}
    /\ ~PreValPanics(ser)
AtTupleElement == Running /\ Top.op = "tuple" /\ Top.i <= Len(Top.v.kids)
AtTupleEnd == Running /\ Top.op = "tuple" /\ Top.i > Len(Top.v.kids)

C20_TupleLikeSeq ==
    [][/\ AtTupleBegin => ser' = serialize_seq(ser)
       /\ AtTupleElement => ser' = seq_separator(ser)
       /\ AtTupleEnd => (ser' = seq_end(ser) /\ ~disable_write_key')]_vars


(***************************************************************************)
(* C15: for an entry at depth 2 whose value is a scalar, a byte slice or a  *)
(* sequence (its items scalars or again sequences), the prefix "<key>=" is  *)
(* emitted exactly once, immediately before the first token of the value:   *)
(* never omitted, never repeated inside the value.  Stated on the documents *)
(* of one section with one such entry: the entry's line starts with the     *)
(* prefix and the text holds no other '='.                                  *)
(***************************************************************************)
RECURSIVE IsPlain(_)
IsPlain(v) ==
    \/ IsScalar(v)
    \/ v.t = "bytes"
    \/ v.t = "seq" /\ \A i \in 1..Len(v.kids) : IsPlain(v.kids[i])

\* a root of one section of one entry
IsEntryDoc(v) ==
    /\ v.t \in Keyed /\ "name" \notin DOMAIN v /\ Len(v.kids) = 1
    /\ v.kids[1].t \in Keyed /\ Len(v.kids[1].kids) = 1

CountEq(out) == Cardinality({i \in 1..Len(out) : out[i] = "="})

StartsWith(line, prefix) ==
    Len(line) >= Len(prefix) /\ SubSeq(line, 1, Len(prefix)) = prefix

C15_KeyOnce ==
    (IsEntryDoc(value) /\ IsPlain(value.kids[1].kids[1]) /\ Finished)
        => /\ ReturnedOk
           /\ Len(Lines(output)) >= 2
           /\ StartsWith(Lines(output)[2], KeyNames[1] \o <<"=">>)
           /\ CountEq(output) = 1


(***************************************************************************)
(* C12: the text of DesktopFile::new(name, Some(icon), categories,          *)
(* terminal) is the header "[Desktop Entry]\n", then, in this order and     *)
(* each once, the lines Name=<name>, Exec=./AppRun, Icon=<icon>,            *)
(* Type=Application, Categories=<c1>;...;<cn>; and, when it is serialized,  *)
(* Terminal=<bool>, each with its own key prefix, then a blank line.        *)
(***************************************************************************)
IsDesktopFile(v) == "name" \in DOMAIN v /\ v.name = "DesktopFile"

EntryOf(v) == v.kids[1]

KeyLine(i, text) == DesktopEntryFields[i] \o <<"=">> \o text \o NL

\* the claim's Categories value; for no category at all it does not say
\* whether the terminator stands alone
CategoriesTexts(cats) ==
    IF Len(cats.kids) = 0 THEN {<<>>, <<";">>} ELSE {SeqText(cats)}

\* the Terminal line, present or not
TerminalLines(term) == {<<>>, KeyLine(6, Token(term))}

DesktopTexts(e) ==
    {<<"[">> \o DesktopFileFields[1] \o <<"]">> \o NL
       \o KeyLine(1, e.kids[1].s)
       \o KeyLine(2, AppRun)
       \o KeyLine(3, e.kids[3].kids[1].s)
       \o KeyLine(4, Application)
       \o KeyLine(5, c)
       \o tl
       \o NL : c \in CategoriesTexts(e.kids[5]), tl \in TerminalLines(e.kids[6])}

C12_DesktopFileText ==
    (IsDesktopFile(value) /\ EntryOf(value).kids[3].t = "some" /\ Finished)
        => (ReturnedOk /\ output \in DesktopTexts(EntryOf(value)))


(***************************************************************************)
(* C21: whenever the encoder reads the pending key, in write_pre_val (a     *)
(* scalar, a sequence or a tuple begun at depth 2 with key writing on) or   *)
(* for the sub-key "<outer>[<key>]=" at depth 3, a pending key is set: the  *)
(* unwrap of an absent key is unreachable.                                  *)
(***************************************************************************)
\* shapes whose handler starts with write_pre_val
CallsPreVal(v) ==
    v.t \in {"str", "bool", "none", "u8", "seq", "bytes",
             "tuple", "tuple_struct", "tuple_variant"}

\* the next step is write_pre_val taking its branch
ReadsKeyInPreVal ==
    /\ Running /\ Top.op = "value" /\ CallsPreVal(Top.v)
    /\ level = 2 /\ ~disable_write_key

\* the next step is the arm 3 of serialize_key or serialize_field
ReadsKeyForSubKey == AtKey /\ level = 3

C21_KeyIsSet == (ReadsKeyInPreVal \/ ReadsKeyForSubKey) => key_name # <<>>


(***************************************************************************)
(* C22: is_false(val) is true exactly when val is false, so the desktop     *)
(* entry has no Terminal line exactly when terminal is false and has the    *)
(* line "Terminal=true" whenever terminal is true.                          *)
(***************************************************************************)
\* out has the line text
HasLine(out, text) == \E i \in 1..Len(Lines(out)) : Lines(out)[i] = text

\* out has a line of the key Terminal
HasTerminalKey(out) ==
    \E i \in 1..Len(Lines(out)) :
        StartsWith(Lines(out)[i], DesktopEntryFields[6] \o <<"=">>)

C22_TerminalWhenTrue ==
    /\ (Running /\ Top.op = "struct" /\ Top.i = 6 /\ Len(Top.v.kids) = 6)
          => (is_false(Top.v.kids[6].b) <=> (Top.v.kids[6].b = FALSE))
    /\ (IsDesktopFile(value) /\ ReturnedOk)
          => IF EntryOf(value).kids[6].b
             THEN HasLine(output, DesktopEntryFields[6] \o <<"=">> \o TrueText)
             ELSE ~HasTerminalKey(output)


(***************************************************************************)
(* C23: every path that archive::is_archive accepts has a supported         *)
(* format: Archive::guess returns Ok for it and unarchive does not fail     *)
(* with ArchiveFormatNotSupported, so the unwrap on unarchive in main does  *)
(* not panic on that error.                                                 *)
(***************************************************************************)
C23_AcceptedIsSupported ==
    /\ stage = "unpack" => (is_archive(input) /\ guess(input).tag = "Ok")
    /\ stage # "panic_unsupported"

====
